---- MODULE Spec2Model ----
(***************************************************************************)
(* A model of pg_diesel's graph-building pipeline:                         *)
(* TryFrom<PgDieselDatabaseBuilder> for PgDieselDatabase                   *)
(* (src/src/database/builder.rs) and the catalog queries it drives.        *)
(*                                                                         *)
(* Names (schema, table, column, function, role names) are modelled by     *)
(* naturals whose order is the order of the strings they stand for.  An    *)
(* Option is a sequence: None is <<>> and Some(x) is <<x>>.                *)
(***************************************************************************)
EXTENDS Integers, Sequences, FiniteSets, TLC

\* ------------------------------------------------------------------ bounds
\* Longest schema list handed to the builder.
MaxSchemaList == 2
\* Most functions a check constraint's pg_constraint row depends on.
MaxDeps == 2
\* Tables of each schema: names 1..NumTables.
NumTables == 2
\* Longest list handed to a bulk builder method (schemas, denylist_types).
MaxBatch == 2
\* Longest argument list of a function row handed to PgProcMetadata::new.
MaxArgs == 3

\* The table name "__diesel_schema_migrations": '_' sorts before every letter.
DieselMigrations == 0

None == <<>>
Some(x) == <<x>>

\* ------------------------------------------------------------- sequences
Range(s) == {s[i] : i \in 1..Len(s)}

RECURSIVE SeqsUpTo(_, _)
SeqsUpTo(S, n) ==
    IF n = 0 THEN {<<>>}
    ELSE LET shorter == SeqsUpTo(S, n - 1)
         IN  shorter \cup {Append(s, x) : s \in {t \in shorter : Len(t) = n - 1}, x \in S}

RECURSIVE Concat(_)
Concat(ss) == IF ss = <<>> THEN <<>> ELSE Head(ss) \o Concat(Tail(ss))

\* The permutations of a finite set, as sequences.
Perms(S) == {p \in [1..Cardinality(S) -> S] : \A x \in S : \E i \in DOMAIN p : p[i] = x}

\* ------------------------------------------------------ the catalog: tables
\* A row of information_schema.tables (the catalog column is the builder's).
Table(s, n) == [table_schema |-> s, table_name |-> n]

\* The schemas of the catalog ("private" < "public").
CatalogSchemas == {1, 2}

CatalogTables ==
    {Table(s, n) : s \in CatalogSchemas, n \in 1..NumTables}
        \cup {Table(1, DieselMigrations)}

\* The tables that carry the sub-entities of the catalog below.
FkHost == Table(2, 1)
PolicyTable == Table(2, 1)
CheckTable == Table(2, 1)
TriggerTable == Table(1, 2)

\* ORDER BY over a finite set of naturals: ascending.
RECURSIVE Ascending(_)
Ascending(S) ==
    IF S = {} THEN <<>>
    ELSE LET m == CHOOSE x \in S : \A y \in S : x <= y
         IN  <<m>> \o Ascending(S \ {m})

\* Table::load_all: the rows of one schema, without the migrations table,
\* ordered by table name.
load_all_tables(table_schema) ==
    LET names == {t.table_name : t \in {u \in CatalogTables :
                        /\ u.table_schema = table_schema
                        /\ u.table_name # DieselMigrations}}
        ordered == Ascending(names)
    IN  [i \in 1..Len(ordered) |-> Table(table_schema, ordered[i])]

\* A sort key that leaves the schema out.
SortKeyLeq_NameOnly(a, b) == a.table_name <= b.table_name

\* The sort key of builder.rs: (schema, name), compared lexicographically.
SortKeyLeq(a, b) ==
    \/ a.table_schema < b.table_schema
    \/ /\ a.table_schema = b.table_schema
       /\ a.table_name <= b.table_name

RECURSIVE InsertByKey(_, _)
\* Insert x after the last element whose key is not greater (a stable sort).
InsertByKey(sorted, x) ==
    IF sorted = <<>> THEN <<x>>
    ELSE IF SortKeyLeq(Head(sorted), x)
         THEN <<Head(sorted)>> \o InsertByKey(Tail(sorted), x)
         ELSE <<x>> \o sorted

RECURSIVE sort_by_key(_)
sort_by_key(ts) ==
    IF ts = <<>> THEN <<>>
    ELSE InsertByKey(sort_by_key(SubSeq(ts, 1, Len(ts) - 1)), ts[Len(ts)])

\* --------------------------------------------- the catalog: fixed relations
\* pg_catalog.pg_proc.  Functions 1 and 2 are overloads of one name, and so
\* are 4 and 10; 2 and 3 are not strict, 5 is a procedure, 6 an aggregate, 7
\* returns a set, 8 returns void and 9 is a window function.
PgProcRows == {
    [oid |-> 1, proname |-> 1, prokind |-> "f", proisstrict |-> TRUE,
     proretset |-> FALSE, prorettype |-> 23, proargtypes |-> <<23>>],
    [oid |-> 2, proname |-> 1, prokind |-> "f", proisstrict |-> FALSE,
     proretset |-> FALSE, prorettype |-> 23, proargtypes |-> <<25>>],
    [oid |-> 3, proname |-> 2, prokind |-> "f", proisstrict |-> FALSE,
     proretset |-> FALSE, prorettype |-> 25, proargtypes |-> <<>>],
    [oid |-> 4, proname |-> 3, prokind |-> "f", proisstrict |-> TRUE,
     proretset |-> FALSE, prorettype |-> 25, proargtypes |-> <<23, 25>>],
    [oid |-> 5, proname |-> 0, prokind |-> "p", proisstrict |-> TRUE,
     proretset |-> FALSE, prorettype |-> 23, proargtypes |-> <<>>],
    [oid |-> 6, proname |-> 0, prokind |-> "a", proisstrict |-> TRUE,
     proretset |-> FALSE, prorettype |-> 23, proargtypes |-> <<23>>],
    [oid |-> 7, proname |-> 4, prokind |-> "f", proisstrict |-> TRUE,
     proretset |-> TRUE, prorettype |-> 23, proargtypes |-> <<>>],
    [oid |-> 8, proname |-> 4, prokind |-> "f", proisstrict |-> TRUE,
     proretset |-> FALSE, prorettype |-> 0, proargtypes |-> <<>>],
    [oid |-> 9, proname |-> 5, prokind |-> "w", proisstrict |-> TRUE,
     proretset |-> FALSE, prorettype |-> 23, proargtypes |-> <<>>],
    [oid |-> 10, proname |-> 3, prokind |-> "f", proisstrict |-> TRUE,
     proretset |-> FALSE, prorettype |-> 25, proargtypes |-> <<25>>] }

ProcByOid(oid) == CHOOSE f \in PgProcRows : f.oid = oid

\* pg_catalog.pg_type, by OID.
PgTypeOids == {23, 25}

\* pg_catalog.pg_roles (a view of pg_authid), in the order the query returns.
PgRoleRows ==
    << [oid |-> Some(20), rolname |-> 1],
       [oid |-> Some(21), rolname |-> 2],
       [oid |-> Some(22), rolname |-> 3] >>

\* information_schema.columns of a table, ordered by ordinal position.
columns(table) ==
    [i \in 1..2 |-> [table |-> table, ordinal_position |-> i, column_name |-> i]]

\* ------------------------------------------- the catalog: what Init draws
\* Stored clause texts: one the expression parser accepts, one it rejects.
GoodSql == "id > 0"
BadSql == "id >"
ClauseChoices == {None, Some(GoodSql), Some(BadSql)}

\* The foreign key constraint hosted by FkHost on its columns (1, 2): the
\* referenced table, the columns of the referenced unique constraint in that
\* constraint's own order, and for each host column (by ordinal position) its
\* position_in_unique_constraint.
FkChoices ==
    {None}
      \cup {Some([ref |-> t, ucols |-> <<1, 2>>, piuc |-> <<1, 2>>]) :
                t \in CatalogTables \ {Table(1, DieselMigrations)}}
      \cup {Some([ref |-> Table(1, 1), ucols |-> u, piuc |-> p]) :
                u \in {<<1, 2>>, <<2, 1>>}, p \in {<<1, 2>>, <<2, 1>>}}

\* The functions the check constraint's pg_constraint row depends on (OIDs of
\* pg_proc), or None when no pg_constraint row matches.
DepsChoices == {None} \cup {Some(d) : d \in SeqsUpTo({1, 2, 3, 4, 10}, MaxDeps)}

\* The function of the pg_trigger row matching the trigger, or None without one.
TgfoidChoices == {None, Some(1), Some(2), Some(3), Some(4)}

\* pg_policy.polroles: role OIDs; 0 stands for PUBLIC and 29 for a role that
\* is gone, neither is a row of pg_authid.
PolrolesChoices ==
    {<<>>, <<0>>, <<21, 0>>, <<22, 20>>, <<20, 21, 22>>, <<29, 22>>, <<21, 21>>}

\* The raw strings of an information_schema.triggers row.
EventChoices ==
    {None, Some("INSERT"), Some("UPDATE"), Some("DELETE"), Some("TRUNCATE"),
     Some("insert"), Some("INSERT OR UPDATE"), Some("")}
TimingChoices ==
    {None, Some("BEFORE"), Some("AFTER"), Some("INSTEAD OF"), Some("before"),
     Some("INSTEAD")}
OrientationChoices ==
    {None, Some("ROW"), Some("STATEMENT"), Some("row"), Some("FOR EACH ROW")}

\* pg_auth_members as pairs <<member, roleid>>.  Role 29 has no row in
\* PgRoleRows: it was created after pg_roles was read.
MemberChoices ==
    SUBSET {<<20, 21>>, <<21, 22>>, <<20, 22>>, <<21, 20>>, <<22, 29>>}

\* Further rows a load of pg_roles may hold, as PgRole allows them: a row
\* without an OID, and a second row with the OID of role 20.
ExtraRoleChoices ==
    {<<>>,
     << [oid |-> None, rolname |-> 4] >>,
     << [oid |-> Some(20), rolname |-> 5] >>,
     << [oid |-> None, rolname |-> 4], [oid |-> Some(20), rolname |-> 5] >>}

\* The orders in which the server may return the rows of pg_roles.
RoleOrderChoices == Perms(1..Len(PgRoleRows))

BaseCatalog ==
    [fk |-> Some([ref |-> Table(1, 1), ucols |-> <<1, 2>>, piuc |-> <<1, 2>>]),
     deps |-> Some(<<1>>),
     tgfoid |-> Some(1),
     polqual |-> Some(GoodSql),
     polwithcheck |-> None,
     members |-> {<<20, 21>>, <<21, 22>>},
     check_clause |-> GoodSql,
     role_order |-> <<1, 2, 3>>,
     event_manipulation |-> Some("INSERT"),
     action_timing |-> Some("BEFORE"),
     action_orientation |-> Some("ROW"),
     polroles |-> <<21, 0>>,
     extra_roles |-> <<>>]

\* The catalogs a build is run against: the base catalog with one of its
\* relations replaced.
Catalogs ==
    {[BaseCatalog EXCEPT !.fk = v] : v \in FkChoices}
      \cup {[BaseCatalog EXCEPT !.deps = v] : v \in DepsChoices}
      \cup {[BaseCatalog EXCEPT !.tgfoid = v] : v \in TgfoidChoices}
      \cup {[BaseCatalog EXCEPT !.polqual = u, !.polwithcheck = c] :
                u \in ClauseChoices, c \in ClauseChoices}
      \cup {[BaseCatalog EXCEPT !.members = v] : v \in MemberChoices}
      \cup {[BaseCatalog EXCEPT !.check_clause = v] : v \in {GoodSql, BadSql}}
      \cup {[BaseCatalog EXCEPT !.role_order = v] : v \in RoleOrderChoices}
      \cup {[BaseCatalog EXCEPT !.event_manipulation = v] : v \in EventChoices}
      \cup {[BaseCatalog EXCEPT !.action_timing = v] : v \in TimingChoices}
      \cup {[BaseCatalog EXCEPT !.action_orientation = v] :
                v \in OrientationChoices}
      \cup {[BaseCatalog EXCEPT !.polroles = v] : v \in PolrolesChoices}
      \cup {[BaseCatalog EXCEPT !.extra_roles = v] : v \in ExtraRoleChoices}

\* The builds run: the base catalog under every schema list, and every catalog
\* under the list of both schemas, given in descending order.
Builds ==
    {<<s, BaseCatalog>> : s \in SeqsUpTo(CatalogSchemas, MaxSchemaList)}
      \cup {<<<<2, 1>>, c>> : c \in Catalogs}

\* ------------------------------------------------- strings with letter case
\* A string whose letter case matters is the sequence of its characters.
Lower == << "a", "b", "c", "d", "e", "f", "g", "h", "i", "j", "k", "l", "m",
            "n", "o", "p", "q", "r", "s", "t", "u", "v", "w", "x", "y", "z" >>
Upper == << "A", "B", "C", "D", "E", "F", "G", "H", "I", "J", "K", "L", "M",
            "N", "O", "P", "Q", "R", "S", "T", "U", "V", "W", "X", "Y", "Z" >>

to_ascii_uppercase(c) ==
    IF \E k \in 1..Len(Lower) : Lower[k] = c
    THEN Upper[CHOOSE k \in 1..Len(Lower) : Lower[k] = c]
    ELSE c

to_ascii_lowercase(c) ==
    IF \E k \in 1..Len(Upper) : Upper[k] = c
    THEN Lower[CHOOSE k \in 1..Len(Upper) : Upper[k] = c]
    ELSE c

\* str::to_uppercase, on ASCII strings.
to_uppercase(str) == [i \in 1..Len(str) |-> to_ascii_uppercase(str[i])]

\* str::eq_ignore_ascii_case.
eq_ignore_ascii_case(a, b) ==
    /\ Len(a) = Len(b)
    /\ \A i \in 1..Len(a) : to_ascii_lowercase(a[i]) = to_ascii_lowercase(b[i])

FULL == << "F", "U", "L", "L" >>
PARTIAL == << "P", "A", "R", "T", "I", "A", "L" >>
SIMPLE == << "S", "I", "M", "P", "L", "E" >>
NONE == << "N", "O", "N", "E" >>
CASCADE == << "C", "A", "S", "C", "A", "D", "E" >>
NO_ACTION == << "N", "O", " ", "A", "C", "T", "I", "O", "N" >>

\* information_schema.referential_constraints.match_option values.
MatchOptionChoices ==
    { FULL, PARTIAL, SIMPLE, NONE,
      << "f", "u", "l", "l" >>, << "F", "u", "l", "l" >>,
      << "p", "a", "r", "t", "i", "a", "l" >>,
      << "s", "i", "m", "p", "l", "e" >>, << "S", "i", "m", "P", "l", "e" >>,
      << "n", "o", "n", "e" >>,
      << "I", "N", "V", "A", "L", "I", "D" >>,
      << "F", "U", "L" >>, << "F", "U", "L", "L", " " >>, << >> }

\* information_schema.referential_constraints.delete_rule values.
DeleteRuleChoices ==
    { CASCADE, NO_ACTION,
      << "c", "a", "s", "c", "a", "d", "e" >>,
      << "C", "a", "s", "c", "a", "d", "e" >>,
      << "c", "A", "s", "C", "a", "D", "e" >>,
      << "R", "E", "S", "T", "R", "I", "C", "T" >>,
      << "S", "E", "T", " ", "N", "U", "L", "L" >>,
      << "C", "A", "S", "C", "A", "D" >>,
      << "C", "A", "S", "C", "A", "D", "E", " " >>, << >> }

ReferentialConstraint(match_option, delete_rule) ==
    [match_option |-> match_option, update_rule |-> NO_ACTION,
     delete_rule |-> delete_rule]

BaseReferentialConstraint == ReferentialConstraint(SIMPLE, NO_ACTION)

\* An on_delete_cascade that compares the case as well.
on_delete_cascade_CaseSensitive(constraint) == constraint.delete_rule = CASCADE

\* ReferentialConstraint::on_delete_cascade.
on_delete_cascade(constraint) ==
    eq_ignore_ascii_case(constraint.delete_rule, CASCADE)

\* A match_kind that matches the option as stored.
match_kind_CaseSensitive(constraint) ==
    LET option == constraint.match_option
    IN  IF option = FULL THEN [tag |-> "value", kind |-> "Full"]
        ELSE IF option = PARTIAL THEN [tag |-> "value", kind |-> "Partial"]
        ELSE IF option \in {SIMPLE, NONE} THEN [tag |-> "value", kind |-> "Simple"]
        ELSE [tag |-> "panic", other |-> option]

\* ReferentialConstraint::match_kind: the kind, or the panic of unreachable!.
match_kind(constraint) ==
    LET option == to_uppercase(constraint.match_option)
    IN  IF option = FULL THEN [tag |-> "value", kind |-> "Full"]
        ELSE IF option = PARTIAL THEN [tag |-> "value", kind |-> "Partial"]
        ELSE IF option \in {SIMPLE, NONE} THEN [tag |-> "value", kind |-> "Simple"]
        ELSE [tag |-> "panic", other |-> option]

\* ---------------------------------------------------------------- state
VARIABLES
    connection,        \* builder: whether a connection was set
    catalog,           \* builder: whether a catalog name was set
    schemas,           \* builder: the schema names to include, in order
    denylist_types,    \* builder: the denylisted type names, in order
    call,              \* the last method called, with what it returned
    referential_constraint, \* the referential constraint row of the foreign key
    db,                \* the catalog snapshot the build runs against
    pc,                \* the position of try_from
    generic_builder,   \* the GenericDBBuilder: what was added, in order
    roles,             \* try_from: the role rows loaded
    tables,            \* try_from: the table rows loaded (then sorted)
    cur,               \* try_from: index in tables of the table in process
    table_metadata,    \* try_from: the TableMetadata of that table
    role_memberships,  \* try_from: role OID -> granted role OIDs
    roles_map,         \* try_from: role OID -> role row
    result,            \* what try_from returned
    queries,           \* number of catalog queries issued so far
    failed,            \* the catalog queries that failed, in order
    log                \* the steps taken, in order

vars == << connection, catalog, schemas, denylist_types, call,
           referential_constraint, db, pc, generic_builder, roles, tables,
           cur, table_metadata, role_memberships, roles_map, result, queries,
           failed, log >>

input == << connection, catalog, schemas, denylist_types, call,
           referential_constraint, db >>

\* ------------------------------------------------------- catalog queries
ProcLeq(a, b) ==
    \/ a.proname < b.proname
    \/ /\ a.proname = b.proname
       /\ a.oid <= b.oid

RECURSIVE OrderProcs(_)
OrderProcs(S) ==
    IF S = {} THEN <<>>
    ELSE LET m == CHOOSE x \in S : \A y \in S : ProcLeq(x, y)
         IN  <<m>> \o OrderProcs(S \ {m})

\* PgProc::load_all: not a procedure or aggregate, strict, not set-returning,
\* not returning void; ordered by (proname, oid).
PgProc_load_all ==
    OrderProcs({f \in PgProcRows : /\ f.prokind \notin {"p", "a"}
                                   /\ f.proisstrict
                                   /\ ~f.proretset
                                   /\ f.prorettype # 0})

\* PgType::from_oid: the first row with that OID; None stands for the
\* NotFound error.
from_oid(oid) == IF oid \in PgTypeOids THEN Some([oid |-> oid]) ELSE None

\* A construction that looks the return type up whatever its identifier.
PgProcMetadata_new_AlwaysLookup(pg_proc) ==
    LET argument_types == [i \in 1..Len(pg_proc.proargtypes) |->
                              from_oid(pg_proc.proargtypes[i])]
        return_type == from_oid(pg_proc.prorettype)
    IN  IF (\E i \in 1..Len(argument_types) : argument_types[i] = None)
           \/ return_type = None
        THEN None
        ELSE Some([argument_types |-> [i \in 1..Len(argument_types) |->
                                          argument_types[i][1]],
                   return_type |-> Some(return_type[1])])

\* PgProcMetadata::new: None stands for a propagated lookup error.
PgProcMetadata_new(pg_proc) ==
    LET argument_types == [i \in 1..Len(pg_proc.proargtypes) |->
                              from_oid(pg_proc.proargtypes[i])]
        return_type == IF pg_proc.prorettype = 0 THEN Some(None)
                       ELSE IF from_oid(pg_proc.prorettype) = None THEN None
                       ELSE Some(from_oid(pg_proc.prorettype))
    IN  IF (\E i \in 1..Len(argument_types) : argument_types[i] = None)
           \/ return_type = None
        THEN None
        ELSE Some([argument_types |-> [i \in 1..Len(argument_types) |->
                                          argument_types[i][1]],
                   return_type |-> return_type[1]])

\* The identifiers PgProcMetadata::new hands to PgType::from_oid, in the order
\* of the calls: the argument types up to the first that fails (collect stops
\* there), then the return type unless it is zero.
TypeQueries(pg_proc) ==
    LET args == pg_proc.proargtypes
        bad == {i \in 1..Len(args) : from_oid(args[i]) = None}
    IN  IF bad # {}
        THEN SubSeq(args, 1, CHOOSE i \in bad : \A j \in bad : i <= j)
        ELSE args \o (IF pg_proc.prorettype = 0 THEN <<>>
                      ELSE <<pg_proc.prorettype>>)

\* pg_role::cached_queries::load_all: the rows of pg_roles, in the order the
\* server returns them (the query has no ORDER BY).
PgRole_load_all ==
    [i \in 1..Len(PgRoleRows) |-> PgRoleRows[db.role_order[i]]] \o db.extra_roles

\* pg_auth_members rows of a member: the granted role OIDs.
member_of(role) ==
    Ascending({m[2] : m \in {x \in db.members : x[1] = role.oid[1]}})

\* information_schema.key_column_usage: the rows of the foreign key hosted by
\* FkHost on its columns (2, 1), and of the unique constraint it references.
KeyColumnUsageRows ==
    IF db.fk = None THEN {}
    ELSE {[constraint_name |-> 1, table |-> FkHost, column_name |-> 3 - i,
           ordinal_position |-> i,
           position_in_unique_constraint |-> Some(db.fk[1].piuc[i])] :
              i \in 1..2}
         \cup
         {[constraint_name |-> 2, table |-> db.fk[1].ref,
           column_name |-> db.fk[1].ucols[j], ordinal_position |-> j,
           position_in_unique_constraint |-> None] : j \in 1..2}

\* Table::foreign_keys: the first key column of each foreign key of the table.
foreign_keys(table) ==
    LET rows == {k \in KeyColumnUsageRows : /\ k.table = table
                                            /\ k.constraint_name = 1
                                            /\ k.ordinal_position = 1}
    IN  IF rows = {} THEN <<>> ELSE <<CHOOSE k \in rows : TRUE>>

\* Table::unique_indices: every catalog table has one unique index; the query
\* matches the indexed relation by relname alone.
unique_indices(table) ==
    LET owners == {t \in CatalogTables : t.table_name = table.table_name}
        ordered == Ascending({t.table_schema : t \in owners})
    IN  [i \in 1..Len(ordered) |->
            [indrelid |-> Table(ordered[i], table.table_name)]]

\* Table::check_constraints: CheckTable has one check constraint.
check_constraints(table) ==
    IF table = CheckTable
    THEN << [constraint_schema |-> table.table_schema, constraint_name |-> 1,
             check_clause |-> db.check_clause] >>
    ELSE <<>>

\* CheckConstraint::functions: the functions its pg_constraint row depends
\* on; none when no pg_constraint row matches.
functions(check_constraint) ==
    IF db.deps = None THEN <<>>
    ELSE [i \in 1..Len(db.deps[1]) |-> ProcByOid(db.deps[1][i])]

\* information_schema.triggers rows of a table: TriggerTable has one trigger.
InformationSchemaTriggers(table) ==
    IF table = TriggerTable
    THEN << [event_object_table |-> table,
             trigger_name |-> Some(1),
             event_manipulation |-> db.event_manipulation,
             action_timing |-> db.action_timing,
             action_orientation |-> db.action_orientation] >>
    ELSE <<>>

\* pg_trigger joined with pg_class and pg_namespace, in the order the server
\* returns the rows: a trigger of the same name on the table of the same name
\* in the other schema, another trigger of TriggerTable, and the row of the
\* trigger itself when there is one.
PgTriggerRows ==
    << [tgrelid |-> Table(2, TriggerTable.table_name), tgname |-> 1, tgfoid |-> 3],
       [tgrelid |-> TriggerTable, tgname |-> 2, tgfoid |-> 4] >>
      \o (IF db.tgfoid = None THEN <<>>
          ELSE << [tgrelid |-> TriggerTable, tgname |-> 1,
                   tgfoid |-> db.tgfoid[1]] >>)

\* The empty string, as a name.
EmptyName == 0

unwrap_or(option, default) == IF option = None THEN default ELSE option[1]

\* The first row of a list with the given trigger name, as an Option.
FindTrigger(pg_triggers, name) ==
    LET hits == {i \in 1..Len(pg_triggers) : pg_triggers[i].tgname = name}
    IN  IF hits = {} THEN None
        ELSE Some(pg_triggers[CHOOSE i \in hits : \A j \in hits : i <= j])

\* A join that matches the low-level rows by trigger name alone.
triggers_ByNameOnly(table) ==
    LET is_triggers == InformationSchemaTriggers(table)
    IN  [i \in 1..Len(is_triggers) |->
            LET found == FindTrigger(PgTriggerRows,
                                     unwrap_or(is_triggers[i].trigger_name, EmptyName))
            IN  << is_triggers[i],
                   IF found = None THEN None ELSE Some(found[1].tgfoid) >>]

\* Table::triggers: each information_schema.triggers row of the table with the
\* tgfoid of the pg_trigger row of the same table and name.
triggers(table) ==
    LET is_triggers == InformationSchemaTriggers(table)
        pg_triggers ==
            SelectSeq(PgTriggerRows,
                      LAMBDA t : /\ t.tgrelid.table_name = table.table_name
                                 /\ t.tgrelid.table_schema = table.table_schema)
    IN  [i \in 1..Len(is_triggers) |->
            LET found == FindTrigger(pg_triggers,
                                     unwrap_or(is_triggers[i].trigger_name, EmptyName))
            IN  << is_triggers[i],
                   IF found = None THEN None ELSE Some(found[1].tgfoid) >>]

\* Table::policies: PolicyTable has one policy, for role 21 and for PUBLIC
\* (OID 0, which is no row of pg_authid).
policies(table) ==
    IF table = PolicyTable
    THEN << [polname |-> 1, polrelid |-> table, polqual |-> db.polqual,
             polwithcheck |-> db.polwithcheck, polroles |-> db.polroles] >>
    ELSE <<>>

\* A lookup that returns every row of pg_authid.
policy_roles_Unfiltered(policy) == PgRoleRows

\* pg_policy_table::cached_queries::roles: the pg_authid rows whose OID is one
\* of polroles.
policy_roles(policy) ==
    SelectSeq(PgRoleRows, LAMBDA r : r.oid # None /\ r.oid[1] \in Range(policy.polroles))

\* ------------------------------------------------- metadata construction
ColumnByName(table, name) ==
    CHOOSE c \in Range(columns(table)) : c.column_name = name

\* Referenced columns taken in the unique constraint's own order.
KeyColumnUsage_metadata_UniqueOrder(fk, host_table) ==
    LET host == {k \in KeyColumnUsageRows :
                    k.constraint_name = fk.constraint_name}
        uniq == {k \in KeyColumnUsageRows : k.position_in_unique_constraint = None}
        HostRow(i) == CHOOSE k \in host : k.ordinal_position = i
        UniqRow(j) == CHOOSE k \in uniq : k.ordinal_position = j
        referenced_table == (CHOOSE k \in uniq : TRUE).table
    IN  [referenced_table |-> referenced_table,
         referenced_columns |->
            [i \in 1..Cardinality(host) |->
                ColumnByName(referenced_table, UniqRow(i).column_name)],
         host_table |-> host_table,
         host_columns |->
            [i \in 1..Cardinality(host) |->
                ColumnByName(host_table, HostRow(i).column_name)]]

\* KeyColumnUsage::metadata: the referenced table is the table of the
\* referenced unique constraint; host columns are the key columns of the
\* constraint by ordinal position; the i-th referenced column is the column of
\* the unique constraint at the i-th host column's
\* position_in_unique_constraint.
KeyColumnUsage_metadata(fk, host_table) ==
    LET host == {k \in KeyColumnUsageRows :
                    k.constraint_name = fk.constraint_name}
        uniq == {k \in KeyColumnUsageRows : k.position_in_unique_constraint = None}
        HostRow(i) == CHOOSE k \in host : k.ordinal_position = i
        UniqRow(j) == CHOOSE k \in uniq : k.ordinal_position = j
        referenced_table == (CHOOSE k \in uniq : TRUE).table
    IN  [referenced_table |-> referenced_table,
         referenced_columns |->
            [i \in 1..Cardinality(host) |->
                ColumnByName(referenced_table,
                    UniqRow(HostRow(i).position_in_unique_constraint[1]).column_name)],
         host_table |-> host_table,
         host_columns |->
            [i \in 1..Cardinality(host) |->
                ColumnByName(host_table, HostRow(i).column_name)]]

\* The expression parser: Some(expression) or None for a parse error.
Parse(sql) == IF sql = GoodSql THEN Some([expr |-> sql]) ELSE None

\* The closure parse_expr of try_from: an absent clause and a clause that does
\* not parse both give None.
parse_expr(sql) == IF sql = None THEN None ELSE Parse(sql[1])

\* A policy whose WITH CHECK expression is dropped when USING does not parse.
PolicyMetadata_new_Coupled(policy, table) ==
    [table |-> table,
     using_functions |-> <<>>,
     check_functions |-> <<>>,
     using_expression |-> parse_expr(policy.polqual),
     check_expression |-> IF parse_expr(policy.polqual) = None THEN None
                          ELSE parse_expr(policy.polwithcheck),
     roles |-> [i \in 1..Len(policy_roles(policy)) |->
                   policy_roles(policy)[i].rolname]]

\* PolicyMetadata::new over the values try_from computes for a policy.
PolicyMetadata_new(policy, table) ==
    [table |-> table,
     using_functions |-> <<>>,
     check_functions |-> <<>>,
     using_expression |-> parse_expr(policy.polqual),
     check_expression |-> parse_expr(policy.polwithcheck),
     roles |-> [i \in 1..Len(policy_roles(policy)) |->
                   policy_roles(policy)[i].rolname]]

\* functions.iter().find(|table_func| table_func.name() == func.proname)
FindByName(funcs, proname) ==
    LET hits == {i \in 1..Len(funcs) : funcs[i].proname = proname}
    IN  IF hits = {} THEN None
        ELSE Some(funcs[CHOOSE i \in hits : \A j \in hits : i <= j])

RECURSIVE KeptFunctions(_, _)
\* The filter_map of CheckConstraint::metadata over the dependency functions.
KeptFunctions(deps, funcs) ==
    IF deps = <<>> THEN <<>>
    ELSE FindByName(funcs, Head(deps).proname) \o KeptFunctions(Tail(deps), funcs)

\* A metadata construction that tolerates a clause that does not parse.
CheckConstraint_panics_Tolerant(check_constraint) == FALSE

\* CheckConstraint::metadata panics (expect) when the check clause does not
\* parse into an expression.
CheckConstraint_panics(check_constraint) ==
    Parse(check_constraint.check_clause) = None

\* CheckConstraint::metadata, when it does not panic.  expression is the parse
\* result as it stands before expect takes the expression out of it.
CheckConstraint_metadata(check_constraint, table, funcs) ==
    [expression |-> Parse(check_constraint.check_clause),
     table |-> table,
     functions |-> KeptFunctions(functions(check_constraint), funcs)]

parse_events(model) ==
    IF model.event_manipulation = None THEN <<>>
    ELSE LET event == model.event_manipulation[1]
         IN  IF event = "INSERT" THEN <<"Insert">>
             ELSE IF event = "UPDATE" THEN <<"Update">>
             ELSE IF event = "DELETE" THEN <<"Delete">>
             ELSE IF event = "TRUNCATE" THEN <<"Truncate">>
             ELSE <<>>

\* A parse_timing that does not know INSTEAD OF.
parse_timing_NoInsteadOf(model) ==
    IF model.action_timing = None THEN None
    ELSE LET t == model.action_timing[1]
         IN  IF t = "BEFORE" THEN Some("Before")
             ELSE IF t = "AFTER" THEN Some("After")
             ELSE None

parse_timing(model) ==
    IF model.action_timing = None THEN None
    ELSE LET t == model.action_timing[1]
         IN  IF t = "BEFORE" THEN Some("Before")
             ELSE IF t = "AFTER" THEN Some("After")
             ELSE IF t = "INSTEAD OF" THEN Some("InsteadOf")
             ELSE None

parse_orientation(model) ==
    IF model.action_orientation = None THEN None
    ELSE LET o == model.action_orientation[1]
         IN  IF o = "ROW" THEN Some("Row")
             ELSE IF o = "STATEMENT" THEN Some("Statement")
             ELSE None

TriggerMetadata_new(model, table, function_oid) ==
    [model |-> model,
     table |-> table,
     events |-> parse_events(model),
     timing |-> parse_timing(model),
     orientation |-> parse_orientation(model),
     function_oid |-> function_oid]

\* TriggerLike::function: the first function of the graph with the trigger's
\* function OID; None without an OID or without such a function.
TriggerLike_function(trigger, graph_functions) ==
    IF trigger.function_oid = None THEN None
    ELSE LET hits == {i \in 1..Len(graph_functions) :
                        graph_functions[i].item.oid = trigger.function_oid[1]}
         IN  IF hits = {} THEN None
             ELSE Some(graph_functions[CHOOSE i \in hits : \A j \in hits : i <= j].item)

\* Table::metadata: the rows of the table's sub-entities.
Table_metadata(table) ==
    [columns |-> columns(table),
     check_constraints |-> check_constraints(table),
     foreign_keys |-> foreign_keys(table),
     unique_indices |-> unique_indices(table),
     triggers |-> triggers(table),
     policies |-> policies(table)]

\* ------------------------------------------------------------- try_from
NoTableMetadata ==
    [columns |-> <<>>, check_constraints |-> <<>>, foreign_keys |-> <<>>,
     unique_indices |-> <<>>, triggers |-> <<>>, policies |-> <<>>]

NewBuilder ==
    [functions |-> <<>>, columns |-> <<>>, check_constraints |-> <<>>,
     foreign_keys |-> <<>>, unique_indices |-> <<>>, triggers |-> <<>>,
     policies |-> <<>>, tables |-> <<>>, roles |-> <<>>,
     schemas |-> <<>>, table_grants |-> <<>>, column_grants |-> <<>>]

NoCall == [op |-> "none"]

Init ==
    /\ connection \in BOOLEAN
    /\ catalog \in BOOLEAN
    /\ denylist_types = <<>>
    /\ call = NoCall
    /\ referential_constraint = BaseReferentialConstraint
    /\ \E build \in Builds : /\ schemas = build[1]
                            /\ db = build[2]
    /\ pc = "start"
    /\ generic_builder = NewBuilder
    /\ roles = <<>>
    /\ tables = <<>>
    /\ cur = 0
    /\ table_metadata = NoTableMetadata
    /\ role_memberships = <<>>
    /\ roles_map = <<>>
    /\ result = [tag |-> "None"]
    /\ queries = 0
    /\ failed = <<>>
    /\ log = <<>>

Ev(op, turn) == [op |-> op, turn |-> turn]

\* n events of one step.
Evs(op, turn, n) == [i \in 1..n |-> Ev(op, turn)]

\* A validation that looks at the catalog before the connection.
MissingAttribute_CatalogFirst ==
    IF ~catalog THEN Some("catalog")
    ELSE IF ~connection THEN Some("connection")
    ELSE IF schemas = <<>> THEN Some("schemas")
    ELSE None

\* The first missing builder attribute, in the order try_from checks them.
MissingAttribute ==
    IF ~connection THEN Some("connection")
    ELSE IF ~catalog THEN Some("catalog")
    ELSE IF schemas = <<>> THEN Some("schemas")
    ELSE None

\* A `?` on a failed catalog query: try_from returns the wrapped error and the
\* builder under construction is dropped.
Abort(query) ==
    /\ pc' = "done"
    /\ result' = [tag |-> "Err", error |-> "Diesel", cause |-> query]
    /\ failed' = Append(failed, query)

\* try_from, lines 122-137.
Validate ==
    /\ pc = "start"
    /\ IF MissingAttribute # None
       THEN /\ pc' = "done"
            /\ result' = [tag |-> "Err", error |-> "MissingAttribute",
                          cause |-> MissingAttribute[1]]
       ELSE /\ pc' = "functions"
            /\ result' = result
    /\ generic_builder' = NewBuilder
    /\ UNCHANGED << input, roles, tables, cur, table_metadata, role_memberships,
                    roles_map, queries, failed, log >>

\* The type lookups PgProcMetadata::new issues for a function.
TypeLookups(pg_proc) ==
    Len(pg_proc.proargtypes) + (IF pg_proc.prorettype = 0 THEN 0 ELSE 1)

RECURSIVE SumLookups(_)
SumLookups(fs) == IF fs = <<>> THEN 0 ELSE TypeLookups(Head(fs)) + SumLookups(Tail(fs))

\* try_from, lines 139-143: load the functions, then add each with its type
\* metadata.  stop is the function whose type lookup fails (0: none does).
LoadFunctions ==
    /\ pc = "functions"
    /\ \E ok \in BOOLEAN :
        IF ~ok
        THEN /\ Abort("PgProc::load_all")
             /\ queries' = queries + 1
             /\ log' = log
             /\ generic_builder' = generic_builder
        ELSE \E stop \in 0..Len(PgProc_load_all) :
             LET fs == PgProc_load_all
                 unresolved == {i \in 1..Len(fs) : PgProcMetadata_new(fs[i]) = None}
                 bad == unresolved \cup (IF stop = 0 THEN {} ELSE {stop})
                 first == IF bad = {} THEN 0
                          ELSE CHOOSE i \in bad : \A j \in bad : i <= j
                 done == IF first = 0 THEN Len(fs) ELSE first - 1
                 added == [i \in 1..done |->
                             [item |-> fs[i],
                              meta |-> PgProcMetadata_new(fs[i])[1]]]
             IN  /\ stop \in {0, first}
                 /\ generic_builder' =
                        [generic_builder EXCEPT !.functions = @ \o added]
                 /\ log' = log \o <<Ev("load_functions", 0)>>
                                \o Evs("add_function", 0, done)
                 /\ queries' = queries + 1
                        + SumLookups(SubSeq(fs, 1, IF first = 0 THEN done ELSE first))
                 /\ IF first = 0
                    THEN /\ pc' = "roles"
                         /\ UNCHANGED << result, failed >>
                    ELSE Abort("PgType::from_oid")
    /\ UNCHANGED << input, roles, tables, cur, table_metadata, role_memberships,
                    roles_map >>

\* try_from, lines 146-149.
LoadRoles ==
    /\ pc = "roles"
    /\ queries' = queries + 1
    /\ \E ok \in BOOLEAN :
        IF ok
        THEN /\ roles' = PgRole_load_all
             /\ log' = Append(log, Ev("load_roles", 0))
             /\ pc' = "tables"
             /\ UNCHANGED << result, failed >>
        ELSE /\ Abort("PgRole::load_all")
             /\ UNCHANGED << roles, log >>
    /\ UNCHANGED << input, generic_builder, tables, cur, table_metadata,
                    role_memberships, roles_map >>

\* try_from, lines 151-167: load the tables of each schema in the order of
\* the schema list, then sort them.  stop is the schema whose query fails.
LoadTables ==
    /\ pc = "tables"
    /\ \E stop \in 0..Len(schemas) :
        LET done == IF stop = 0 THEN Len(schemas) ELSE stop - 1
            loaded == Concat([i \in 1..done |-> load_all_tables(schemas[i])])
        IN  /\ queries' = queries + (IF stop = 0 THEN done ELSE stop)
            /\ IF stop = 0
               THEN /\ tables' = sort_by_key(loaded)
                    /\ log' = log \o Evs("load_tables", 0, done)
                                   \o <<Ev("sort_tables", 0)>>
                    /\ cur' = 1
                    /\ pc' = IF loaded = <<>> THEN "memberships" ELSE "table_metadata"
                    /\ UNCHANGED << result, failed >>
               ELSE /\ tables' = loaded
                    /\ log' = log \o Evs("load_tables", 0, done)
                    /\ cur' = cur
                    /\ Abort("Table::load_all")
    /\ UNCHANGED << input, generic_builder, roles, table_metadata,
                    role_memberships, roles_map >>

\* try_from, line 172: the TableMetadata of the table in process.
LoadTableMetadata ==
    /\ pc = "table_metadata"
    /\ queries' = queries + 1
    /\ \E ok \in BOOLEAN :
        IF ok
        THEN /\ table_metadata' = Table_metadata(tables[cur])
             /\ log' = Append(log, Ev("table_metadata", cur))
             /\ pc' = "columns"
             /\ UNCHANGED << result, failed >>
        ELSE /\ Abort("Table::metadata")
             /\ UNCHANGED << table_metadata, log >>
    /\ UNCHANGED << input, generic_builder, roles, tables, cur,
                    role_memberships, roles_map >>

\* An order of the loops with foreign keys ahead of check constraints.
StageAfter_ForeignKeysFirst(stage) ==
    CASE stage = "columns" -> "foreign_keys"
      [] stage = "foreign_keys" -> "check_constraints"
      [] stage = "check_constraints" -> "unique_indices"
      [] stage = "unique_indices" -> "triggers"
      [] stage = "triggers" -> "policies"
      [] stage = "policies" -> "add_table"

\* The order of the loops over a table's sub-entities (lines 174-246).
StageAfter(stage) ==
    CASE stage = "columns" -> "check_constraints"
      [] stage = "check_constraints" -> "foreign_keys"
      [] stage = "foreign_keys" -> "unique_indices"
      [] stage = "unique_indices" -> "triggers"
      [] stage = "triggers" -> "policies"
      [] stage = "policies" -> "add_table"

\* The catalog query the metadata of a sub-entity issues; None for triggers,
\* whose metadata is computed from the rows already loaded.
StageQuery(stage) ==
    CASE stage = "columns" -> Some("Column::metadata")
      [] stage = "check_constraints" -> Some("CheckConstraint::functions")
      [] stage = "foreign_keys" -> Some("KeyColumnUsage::metadata")
      [] stage = "unique_indices" -> Some("PgIndex::metadata")
      [] stage = "triggers" -> None
      [] stage = "policies" -> Some("pg_policy_table::roles")

\* What one loop adds to the builder for an item of the table in process.
StageEntry(stage, item, table) ==
    CASE stage = "columns" ->
            [item |-> item, meta |-> [table |-> table]]
      [] stage = "check_constraints" ->
            [item |-> item,
             meta |-> CheckConstraint_metadata(item, table,
                         [i \in 1..Len(generic_builder.functions) |->
                             generic_builder.functions[i].item])]
      [] stage = "foreign_keys" ->
            [item |-> item, meta |-> KeyColumnUsage_metadata(item, table)]
      [] stage = "unique_indices" ->
            [item |-> item, meta |-> [table |-> table]]
      [] stage = "triggers" ->
            [item |-> TriggerMetadata_new(item[1], table, item[2]), meta |-> <<>>]
      [] stage = "policies" ->
            [item |-> item, meta |-> PolicyMetadata_new(item, table)]

\* The first item of a loop whose metadata construction panics (0: none).
FirstPanic(stage, items) ==
    LET bad == IF stage = "check_constraints"
               THEN {i \in 1..Len(items) : CheckConstraint_panics(items[i])}
               ELSE {}
    IN  IF bad = {} THEN 0 ELSE CHOOSE i \in bad : \A j \in bad : i <= j

\* A panic unwinds try_from: nothing is returned.
Panic ==
    /\ pc' = "panicked"
    /\ UNCHANGED << result, failed >>

\* One loop of lines 174-244 over the rows of the TableMetadata.  stop is the
\* item whose metadata query fails (0: none does); the loop also ends at the
\* first item whose metadata construction panics, which it does before it
\* issues its query.
AddEntities(stage) ==
    /\ pc = stage
    /\ \E stop \in 0..Len(table_metadata[stage]) :
        LET items == table_metadata[stage]
            panics == FirstPanic(stage, items)
            last == IF stop # 0 THEN stop ELSE panics
            done == IF last = 0 THEN Len(items) ELSE last - 1
            added == [i \in 1..done |-> StageEntry(stage, items[i], tables[cur])]
        IN  /\ stop # 0 => /\ StageQuery(stage) # None
                           /\ panics = 0 \/ stop < panics
            /\ generic_builder' = [generic_builder EXCEPT ![stage] = @ \o added]
            /\ log' = log \o Evs(stage, cur, done)
            /\ queries' = queries + (IF StageQuery(stage) = None THEN 0
                                     ELSE IF stop = 0 THEN done ELSE stop)
            /\ IF last = 0
               THEN /\ pc' = StageAfter(stage)
                    /\ UNCHANGED << result, failed >>
               ELSE IF stop # 0
               THEN Abort(StageQuery(stage)[1])
               ELSE Panic
    /\ UNCHANGED << input, roles, tables, cur, table_metadata, role_memberships,
                    roles_map >>

AddColumns == AddEntities("columns")
AddCheckConstraints == AddEntities("check_constraints")
AddForeignKeys == AddEntities("foreign_keys")
AddUniqueIndices == AddEntities("unique_indices")
AddTriggers == AddEntities("triggers")
AddPolicies == AddEntities("policies")

\* RoleTableGrants::load_all: the table privilege grants of the given schemas;
\* every first table of a catalog schema is granted to role 2.
RoleTableGrants_load_all(table_schemas) ==
    LET granted == Ascending(CatalogSchemas \cap Range(table_schemas))
    IN  [i \in 1..Len(granted) |->
            [grantee |-> 2, table_schema |-> granted[i], table_name |-> 1,
             privilege_type |-> "SELECT"]]

\* An add_table step that adds the table's privilege grants as well.
AddTable_WithGrants ==
    /\ pc = "add_table"
    /\ generic_builder' =
          [generic_builder EXCEPT
              !.tables = Append(@, [item |-> tables[cur], meta |-> table_metadata]),
              !.table_grants =
                  @ \o SelectSeq(RoleTableGrants_load_all(schemas),
                                 LAMBDA g : /\ g.table_schema = tables[cur].table_schema
                                            /\ g.table_name = tables[cur].table_name)]
    /\ log' = Append(log, Ev("add_table", cur))
    /\ IF cur < Len(tables)
       THEN /\ cur' = cur + 1
            /\ pc' = "table_metadata"
       ELSE /\ cur' = cur
            /\ pc' = "memberships"
    /\ UNCHANGED << input, roles, tables, table_metadata, role_memberships,
                    roles_map, result, queries, failed >>

\* try_from, line 246, and the step of the loop over the tables.
AddTable ==
    /\ pc = "add_table"
    /\ generic_builder' =
          [generic_builder EXCEPT !.tables =
              Append(@, [item |-> tables[cur], meta |-> table_metadata])]
    /\ log' = Append(log, Ev("add_table", cur))
    /\ IF cur < Len(tables)
       THEN /\ cur' = cur + 1
            /\ pc' = "table_metadata"
       ELSE /\ cur' = cur
            /\ pc' = "memberships"
    /\ UNCHANGED << input, roles, tables, table_metadata, role_memberships,
                    roles_map, result, queries, failed >>

\* The rows of roles that have an OID, by index.
WithOid == {i \in 1..Len(roles) : roles[i].oid # None}

\* The last row of roles with this OID (a later insert replaces an earlier).
LastWithOid(oid) ==
    CHOOSE i \in WithOid : /\ roles[i].oid[1] = oid
                           /\ \A j \in WithOid : roles[j].oid[1] = oid => j <= i

\* What try_from stores for a member_of query: the granted OIDs, or the
\* default (no OID) when the query failed.
unwrap_or_default(ok, member_of_oids) == IF ok THEN member_of_oids ELSE <<>>

\* try_from, lines 250-269: register every role that has an OID and query
\* its memberships.  failing are the roles whose member_of query fails.
CollectMemberships ==
    /\ pc = "memberships"
    /\ \E failing \in SUBSET WithOid :
        LET oids == {roles[i].oid[1] : i \in WithOid}
        IN  /\ roles_map' = [oid \in oids |-> roles[LastWithOid(oid)]]
            /\ role_memberships' =
                  [oid \in oids |->
                      unwrap_or_default(LastWithOid(oid) \notin failing,
                                        member_of(roles[LastWithOid(oid)]))]
            /\ failed' = failed \o [i \in 1..Cardinality(failing) |-> "member_of"]
    /\ queries' = queries + Cardinality(WithOid)
    /\ log' = log \o Evs("member_of", 0, Cardinality(WithOid))
    /\ pc' = "add_roles"
    /\ UNCHANGED << input, generic_builder, roles, tables, cur, table_metadata,
                    result >>

\* A resolution that keeps a placeholder role for an OID it does not find.
Resolve_Placeholder(member_of_oids, map) ==
    [i \in 1..Len(member_of_oids) |->
        IF member_of_oids[i] \in DOMAIN map THEN map[member_of_oids[i]]
        ELSE [oid |-> Some(member_of_oids[i]), rolname |-> 0]]

RECURSIVE Resolve(_, _)
\* member_of_oids.iter().filter_map(|oid| roles_map.get(oid).cloned())
Resolve(member_of_oids, map) ==
    IF member_of_oids = <<>> THEN <<>>
    ELSE (IF Head(member_of_oids) \in DOMAIN map
          THEN <<map[Head(member_of_oids)]>> ELSE <<>>)
         \o Resolve(Tail(member_of_oids), map)

\* A single pass: a role is resolved as soon as its row is registered, against
\* the rows registered up to it.
RolesMapAtResolution_SinglePass(role_oid) ==
    LET sofar == {oid \in DOMAIN roles_map :
                     \E i \in WithOid : /\ roles[i].oid[1] = oid
                                        /\ i <= LastWithOid(role_oid)}
    IN  [oid \in sofar |-> roles_map[oid]]

\* The roles_map the second loop resolves a role against: the first loop has
\* ended, every row is registered.
RolesMapAtResolution(role_oid) == roles_map

RoleMetadata_new(member_of_roles, role_policies) ==
    [member_of |-> member_of_roles, policies |-> role_policies]

\* The orders in which `for (role_oid, role_rc) in &roles_map` may visit the
\* keys of a std HashMap: the hasher is seeded anew for every map.
HashMapIterationOrders(map) == Perms(DOMAIN map)

\* A second loop that adds a role for every row that has an OID.
AddRoles_EveryRow ==
    /\ pc = "add_roles"
    /\ \E order \in Perms(WithOid) :
        LET added == [i \in 1..Len(order) |->
                        [item |-> roles[order[i]],
                         meta |-> RoleMetadata_new(
                                     Resolve(role_memberships[roles[order[i]].oid[1]],
                                             roles_map),
                                     <<>>)]]
        IN  /\ generic_builder' = [generic_builder EXCEPT !.roles = @ \o added]
            /\ log' = log \o Evs("add_role", 0, Len(order))
            /\ result' = [tag |-> "Ok", graph |-> generic_builder']
    /\ pc' = "done"
    /\ UNCHANGED << input, roles, tables, cur, table_metadata, role_memberships,
                    roles_map, queries, failed >>

\* try_from, lines 274-292: add every registered role, in the iteration order
\* of the hash map (any order), and return the graph.
AddRoles ==
    /\ pc = "add_roles"
    /\ \E order \in HashMapIterationOrders(roles_map) :
        LET added == [i \in 1..Len(order) |->
                        [item |-> roles_map[order[i]],
                         meta |-> RoleMetadata_new(
                                     Resolve(role_memberships[order[i]],
                                             RolesMapAtResolution(order[i])),
                                     <<>>)]]
        IN  /\ generic_builder' = [generic_builder EXCEPT !.roles = @ \o added]
            /\ log' = log \o Evs("add_role", 0, Len(order))
            /\ result' = [tag |-> "Ok", graph |-> generic_builder']
    /\ pc' = "done"
    /\ UNCHANGED << input, roles, tables, cur, table_metadata, role_memberships,
                    roles_map, queries, failed >>

Next ==
    \/ Validate
    \/ LoadFunctions
    \/ LoadRoles
    \/ LoadTables
    \/ LoadTableMetadata
    \/ AddColumns
    \/ AddCheckConstraints
    \/ AddForeignKeys
    \/ AddUniqueIndices
    \/ AddTriggers
    \/ AddPolicies
    \/ AddTable
    \/ CollectMemberships
    \/ AddRoles

Spec == Init /\ [][Next]_vars

\* ----------------------------------------------- PgDieselDatabaseBuilder
\* Type names a caller denylists ("bar" < "foo").
TypeNames == {1, 2}

\* schema: push, whatever the list holds.
Schema(list, name) == Append(list, name)

\* A bulk add that does not look at what the list holds.
Schemas_NoDedup(list, names) == list \o names

RECURSIVE Schemas(_, _)
\* schemas: for each name in order, schema(name) unless the list holds it.
Schemas(list, names) ==
    IF names = <<>> THEN list
    ELSE Schemas(IF Head(names) \in Range(list) THEN list
                 ELSE Schema(list, Head(names)),
                 Tail(names))

\* A denylist_type that pushes without looking for the type.
DenylistType_NoCheck(denylist, ty) ==
    [tag |-> "Ok", denylist |-> Append(denylist, ty)]

\* denylist_type: the error and the list as it stands when the type is in it
\* already, else Ok with the type pushed.
\* A denylist_type that puts the new type in front.
DenylistType_Prepend(denylist, ty) ==
    IF ty \in Range(denylist)
    THEN [tag |-> "Err", error |-> "DuplicateDenylistedType", value |-> ty,
          denylist |-> denylist]
    ELSE [tag |-> "Ok", denylist |-> <<ty>> \o denylist]

DenylistType(denylist, ty) ==
    IF ty \in Range(denylist)
    THEN [tag |-> "Err", error |-> "DuplicateDenylistedType", value |-> ty,
          denylist |-> denylist]
    ELSE [tag |-> "Ok", denylist |-> Append(denylist, ty)]

RECURSIVE DenylistTypes(_, _)
\* denylist_types: self = self.denylist_type(ty)? for each type in order.
DenylistTypes(denylist, types) ==
    IF types = <<>> THEN [tag |-> "Ok", denylist |-> denylist]
    ELSE LET r == DenylistType(denylist, Head(types))
         IN  IF r.tag = "Err" THEN r ELSE DenylistTypes(r.denylist, Tail(types))

\* PgDieselDatabaseBuilder::default().
BuilderInit ==
    /\ connection = FALSE
    /\ catalog = FALSE
    /\ schemas = <<>>
    /\ denylist_types = <<>>
    /\ call = NoCall
    /\ referential_constraint = BaseReferentialConstraint
    /\ db = BaseCatalog
    /\ pc = "builder"
    /\ generic_builder = NewBuilder
    /\ roles = <<>>
    /\ tables = <<>>
    /\ cur = 0
    /\ table_metadata = NoTableMetadata
    /\ role_memberships = <<>>
    /\ roles_map = <<>>
    /\ result = [tag |-> "None"]
    /\ queries = 0
    /\ failed = <<>>
    /\ log = <<>>

BuildUntouched ==
    UNCHANGED << referential_constraint, db, generic_builder, roles, tables, cur, table_metadata,
                 role_memberships, roles_map, result, queries, failed, log >>

Builder_connection ==
    /\ pc = "builder"
    /\ connection' = TRUE
    /\ call' = [op |-> "connection"]
    /\ UNCHANGED << catalog, schemas, denylist_types, pc >>
    /\ BuildUntouched

Builder_catalog ==
    /\ pc = "builder"
    /\ catalog' = TRUE
    /\ call' = [op |-> "catalog"]
    /\ UNCHANGED << connection, schemas, denylist_types, pc >>
    /\ BuildUntouched

Builder_schema ==
    /\ pc = "builder"
    /\ Len(schemas) < MaxSchemaList
    /\ \E name \in CatalogSchemas :
          /\ schemas' = Schema(schemas, name)
          /\ call' = [op |-> "schema", arg |-> <<name>>, before |-> schemas]
    /\ UNCHANGED << connection, catalog, denylist_types, pc >>
    /\ BuildUntouched

Builder_schemas ==
    /\ pc = "builder"
    /\ \E names \in SeqsUpTo(CatalogSchemas, MaxBatch) :
          /\ Len(Schemas(schemas, names)) <= MaxSchemaList
          /\ schemas' = Schemas(schemas, names)
          /\ call' = [op |-> "schemas", arg |-> names, before |-> schemas]
    /\ UNCHANGED << connection, catalog, denylist_types, pc >>
    /\ BuildUntouched

\* A builder method that returns Result<Self, _>: on Err the builder, moved
\* into the call, is dropped.
DenylistReturn(op, arg, r) ==
    /\ denylist_types' = r.denylist
    /\ call' = [op |-> op, arg |-> arg, before |-> denylist_types,
                ret |-> IF r.tag = "Ok" THEN [tag |-> "Ok"]
                        ELSE [tag |-> "Err", error |-> r.error, value |-> r.value]]
    /\ pc' = IF r.tag = "Ok" THEN "builder" ELSE "dropped"

Builder_denylist_type ==
    /\ pc = "builder"
    /\ \E ty \in TypeNames :
          DenylistReturn("denylist_type", <<ty>>, DenylistType(denylist_types, ty))
    /\ UNCHANGED << connection, catalog, schemas >>
    /\ BuildUntouched

Builder_denylist_types ==
    /\ pc = "builder"
    /\ \E types \in SeqsUpTo(TypeNames, MaxBatch) :
          DenylistReturn("denylist_types", types, DenylistTypes(denylist_types, types))
    /\ UNCHANGED << connection, catalog, schemas >>
    /\ BuildUntouched

BuilderNext ==
    \/ Builder_connection
    \/ Builder_catalog
    \/ Builder_schema
    \/ Builder_schemas
    \/ Builder_denylist_type
    \/ Builder_denylist_types

BuilderSpec == BuilderInit /\ [][BuilderNext]_vars

\* ------------------------------------------- foreign key accessors
\* A foreign key whose referential constraint row is any of the catalog's.
ReferentialInit ==
    /\ \E m \in MatchOptionChoices, d \in DeleteRuleChoices :
          referential_constraint = ReferentialConstraint(m, d)
    /\ connection = FALSE
    /\ catalog = FALSE
    /\ schemas = <<>>
    /\ denylist_types = <<>>
    /\ call = NoCall
    /\ db = BaseCatalog
    /\ pc = "foreign_key"
    /\ generic_builder = NewBuilder
    /\ roles = <<>>
    /\ tables = <<>>
    /\ cur = 0
    /\ table_metadata = NoTableMetadata
    /\ role_memberships = <<>>
    /\ roles_map = <<>>
    /\ result = [tag |-> "None"]
    /\ queries = 0
    /\ failed = <<>>
    /\ log = <<>>

\* KeyColumnUsageMetadata::on_delete_cascade.
ForeignKey_on_delete_cascade ==
    /\ pc = "foreign_key"
    /\ call' = [op |-> "on_delete_cascade",
                ret |-> on_delete_cascade(referential_constraint)]
    /\ UNCHANGED << connection, catalog, schemas, denylist_types, pc >>
    /\ BuildUntouched

\* KeyColumnUsageMetadata::match_kind: a panic unwinds the caller.
ForeignKey_match_kind ==
    /\ pc = "foreign_key"
    /\ call' = [op |-> "match_kind", ret |-> match_kind(referential_constraint)]
    /\ pc' = IF match_kind(referential_constraint).tag = "panic"
             THEN "panicked" ELSE pc
    /\ UNCHANGED << connection, catalog, schemas, denylist_types >>
    /\ BuildUntouched

ReferentialNext ==
    \/ ForeignKey_on_delete_cascade
    \/ ForeignKey_match_kind

ReferentialSpec == ReferentialInit /\ [][ReferentialNext]_vars

\* ------------------------------------------------- function metadata
\* Type identifiers of function rows: 23 and 25 have a pg_type row, 99 has
\* none, 0 is the marker of no return type.
ProcRowChoices ==
    {[oid |-> 11, proname |-> 6, prokind |-> "f", proisstrict |-> TRUE,
      proretset |-> FALSE, prorettype |-> r, proargtypes |-> a] :
        r \in {0, 23, 25, 99}, a \in SeqsUpTo({23, 25, 99}, MaxArgs)}

\* One build over the base catalog, or one direct call.
MetadataInit ==
    /\ Init
    /\ schemas = <<2, 1>>
    /\ db = BaseCatalog

\* PgProcMetadata::new called on a function row, outside a build.
Call_PgProcMetadata_new ==
    /\ pc = "start"
    /\ call = NoCall
    /\ \E pg_proc \in ProcRowChoices :
          call' = [op |-> "PgProcMetadata::new",
                   pg_proc |-> pg_proc,
                   lookups |-> TypeQueries(pg_proc),
                   ret |-> PgProcMetadata_new(pg_proc)]
    /\ UNCHANGED << connection, catalog, schemas, denylist_types, pc >>
    /\ BuildUntouched

MetadataNext ==
    \/ Call_PgProcMetadata_new
    \/ (call = NoCall /\ Next)

MetadataSpec == MetadataInit /\ [][MetadataNext]_vars

\* ================================================================ claims
\* What the build returned, once it has returned.
Returned == pc = "done"
ReturnedOk == pc = "done" /\ result.tag = "Ok"
ReturnedDiesel(cause) ==
    /\ pc = "done"
    /\ result.tag = "Err"
    /\ result.error = "Diesel"
    /\ result.cause = cause

\* C1: once a catalog query has failed at any step of the build (the role
\* membership query included), the build returns the Diesel error wrapping
\* that failure and returns no graph.
C1_QueryFailureAborts ==
    (Returned /\ failed # <<>>) => ReturnedDiesel(failed[1])

\* C2: when connection, catalog or schemas is missing, no catalog query is
\* ever issued and no step is taken, and the build returns MissingAttribute
\* naming the first missing one in the order connection, catalog, schemas.
C2_MissingAttributeFirst ==
    (~connection \/ ~catalog \/ schemas = <<>>) =>
        /\ queries = 0
        /\ log = <<>>
        /\ pc \in {"start", "done"}
        /\ Returned =>
              result = [tag |-> "Err", error |-> "MissingAttribute",
                        cause |-> IF ~connection THEN "connection"
                                  ELSE IF ~catalog THEN "catalog"
                                  ELSE "schemas"]

\* C2 witness: a build that returned with both connection and catalog missing.
C2_Witness ==
    /\ Returned
    /\ ~connection
    /\ ~catalog
    /\ result.tag = "Err"
    /\ result.error = "MissingAttribute"

\* ---------------------------------------------------------------------- C3
\* The rank of a step in the order the claim gives.
Phase(op) ==
    CASE op = "load_functions" -> 1
      [] op = "add_function" -> 2
      [] op = "load_roles" -> 3
      [] op = "load_tables" -> 4
      [] op = "sort_tables" -> 5
      [] op = "member_of" -> 7
      [] op = "add_role" -> 8
      [] OTHER -> 6

\* The rank of a per-table step within the processing of its table.
SubRank(op) ==
    CASE op = "table_metadata" -> 0
      [] op = "columns" -> 1
      [] op = "check_constraints" -> 2
      [] op = "foreign_keys" -> 3
      [] op = "unique_indices" -> 4
      [] op = "triggers" -> 5
      [] op = "policies" -> 6
      [] op = "add_table" -> 7

Count(op, turn) ==
    Cardinality({i \in 1..Len(log) : log[i] = [op |-> op, turn |-> turn]})

Logged(op) == \E i \in 1..Len(log) : log[i].op = op

\* C3: the steps of a build occur in the order functions loaded and added,
\* roles loaded, tables of all requested schemas loaded and sorted, then for
\* each table its columns, check constraints, foreign keys, unique indexes,
\* triggers, policies and only then the table, then the role membership
\* queries and the roles; and each stage is complete before the next begins.
C3_StepOrder ==
    /\ \A i, j \in 1..Len(log) :
          i < j =>
            /\ Phase(log[i].op) <= Phase(log[j].op)
            /\ (Phase(log[i].op) = 6 /\ Phase(log[j].op) = 6) =>
                  \/ log[i].turn < log[j].turn
                  \/ /\ log[i].turn = log[j].turn
                     /\ SubRank(log[i].op) <= SubRank(log[j].op)
    /\ Logged("load_roles") =>
          /\ Count("add_function", 0) = Len(PgProc_load_all)
          /\ Len(generic_builder.functions) = Len(PgProc_load_all)
    /\ (\E i \in 1..Len(log) : Phase(log[i].op) \in {6, 7, 8}) =>
          /\ Count("load_tables", 0) = Len(schemas)
          /\ Count("sort_tables", 0) = 1
    /\ \A k \in 1..Len(tables) :
          Count("add_table", k) > 0 =>
            /\ Count("add_table", k) = 1
            /\ Count("table_metadata", k) = 1
            /\ Count("columns", k) = Len(columns(tables[k]))
            /\ Count("check_constraints", k) = Len(check_constraints(tables[k]))
            /\ Count("foreign_keys", k) = Len(foreign_keys(tables[k]))
            /\ Count("unique_indices", k) = Len(unique_indices(tables[k]))
            /\ Count("triggers", k) = Len(triggers(tables[k]))
            /\ Count("policies", k) = Len(policies(tables[k]))
    /\ (Logged("member_of") \/ Logged("add_role")) =>
          \A k \in 1..Len(tables) : Count("add_table", k) = 1
    /\ Logged("add_role") =>
          Count("member_of", 0) = Cardinality({i \in 1..Len(roles) : roles[i].oid # None})

\* C3 witness: a successful build over both schemas that added foreign keys,
\* check constraints, triggers, policies and roles.
C3_Witness ==
    /\ ReturnedOk
    /\ Len(result.graph.tables) = 2 * NumTables
    /\ result.graph.check_constraints # <<>>
    /\ result.graph.foreign_keys # <<>>
    /\ result.graph.triggers # <<>>
    /\ result.graph.policies # <<>>
    /\ Len(result.graph.roles) = 3

\* ---------------------------------------------------------------------- C4
\* C4: after a successful build every cross-link resolves within the graph:
\* a foreign key's referenced table is a table of the graph, a trigger's
\* function lookup gives a function of the graph with the trigger's function
\* OID or nothing, and every policy role and member-of entry is a role of the
\* graph.
C4_CrossLinksResolve ==
    ReturnedOk =>
        LET graph == result.graph
            graph_tables == {graph.tables[i].item : i \in 1..Len(graph.tables)}
            graph_roles == {graph.roles[i].item : i \in 1..Len(graph.roles)}
        IN  /\ \A i \in 1..Len(graph.foreign_keys) :
                  graph.foreign_keys[i].meta.referenced_table \in graph_tables
            /\ \A i \in 1..Len(graph.triggers) :
                  LET f == TriggerLike_function(graph.triggers[i].item,
                                                graph.functions)
                  IN  f # None =>
                        /\ graph.triggers[i].item.function_oid = Some(f[1].oid)
                        /\ \E j \in 1..Len(graph.functions) :
                              graph.functions[j].item = f[1]
            /\ \A i \in 1..Len(graph.policies) :
                  \A name \in Range(graph.policies[i].meta.roles) :
                      \E r \in graph_roles : r.rolname = name
            /\ \A i \in 1..Len(graph.roles) :
                  Range(graph.roles[i].meta.member_of) \subseteq graph_roles

\* ---------------------------------------------------------------------- C5
\* (schema, name) order, strict.
KeyBefore(a, b) ==
    \/ a.table_schema < b.table_schema
    \/ /\ a.table_schema = b.table_schema
       /\ a.table_name < b.table_name

AddedTables == [i \in 1..Len(generic_builder.tables) |-> generic_builder.tables[i].item]

\* C5: whatever the order of the requested schemas, the tables are processed
\* and added in ascending (schema, name) order: no table follows one with a
\* greater key, the tables added so far are the first ones of the sorted list
\* in process, that list holds each table of each requested schema once per
\* request, and the graph returned holds all of them in that order.
C5_TablesAddedInKeyOrder ==
    /\ \A i, j \in 1..Len(AddedTables) :
          i < j => ~KeyBefore(AddedTables[j], AddedTables[i])
    /\ Len(AddedTables) <= Len(tables)
    /\ AddedTables = SubSeq(tables, 1, Len(AddedTables))
    /\ Logged("sort_tables") =>
          /\ \A i, j \in 1..Len(tables) : i < j => ~KeyBefore(tables[j], tables[i])
          /\ \A t \in CatalogTables :
                Cardinality({i \in 1..Len(tables) : tables[i] = t})
                  = IF t.table_name = DieselMigrations THEN 0
                    ELSE Cardinality({i \in 1..Len(schemas) :
                                         schemas[i] = t.table_schema})
    /\ (Logged("member_of") \/ Logged("add_role")) => AddedTables = tables
    /\ ReturnedOk =>
          [i \in 1..Len(result.graph.tables) |-> result.graph.tables[i].item] = tables

\* C5 witness: a successful build asked for the schemas in descending order.
C5_Witness ==
    /\ ReturnedOk
    /\ schemas = <<2, 1>>
    /\ Len(result.graph.tables) = 2 * NumTables
    /\ result.graph.tables[1].item = Table(1, 1)

\* ---------------------------------------------------------------------- C7
\* C7: for every foreign key added, the host columns and the referenced
\* columns have the same length, the i-th host column is the key column at
\* ordinal position i, and the i-th referenced column is the column of the
\* referenced unique constraint that this key column points at.
C7_ColumnsPairedByOrdinal ==
    \A n \in 1..Len(generic_builder.foreign_keys) :
        LET e == generic_builder.foreign_keys[n]
            host == e.meta.host_columns
            ref == e.meta.referenced_columns
        IN  /\ Len(host) = Len(ref)
            /\ Len(host) = Cardinality({k \in KeyColumnUsageRows :
                                k.constraint_name = e.item.constraint_name})
            /\ \A i \in 1..Len(host) :
                  \E k, u \in KeyColumnUsageRows :
                      /\ k.constraint_name = e.item.constraint_name
                      /\ k.ordinal_position = i
                      /\ k.column_name = host[i].column_name
                      /\ host[i].table = e.meta.host_table
                      /\ k.position_in_unique_constraint # None
                      /\ u.position_in_unique_constraint = None
                      /\ u.ordinal_position = k.position_in_unique_constraint[1]
                      /\ u.column_name = ref[i].column_name
                      /\ ref[i].table = e.meta.referenced_table

\* C7 witness: a graph with a two-column foreign key whose paired columns
\* bear different names and whose referenced columns are not in the order of
\* the unique constraint.
C7_Witness ==
    /\ ReturnedOk
    /\ db.fk # None
    /\ db.fk[1].piuc = <<2, 1>>
    /\ \E n \in 1..Len(result.graph.foreign_keys) :
          LET m == result.graph.foreign_keys[n].meta
          IN  /\ Len(m.host_columns) = 2
              /\ m.host_columns[1].column_name # m.referenced_columns[1].column_name

\* ---------------------------------------------------------------------- C8
\* C8: in the graph returned, the member_of of every role A holds exactly the
\* registered roles the membership catalog records as granted to A itself.
C8_DirectMembershipExact ==
    ReturnedOk =>
        LET graph == result.graph
            registered == {graph.roles[i].item.oid[1] : i \in 1..Len(graph.roles)}
        IN  \A i \in 1..Len(graph.roles) :
                LET A == graph.roles[i].item.oid[1]
                    m == graph.roles[i].meta.member_of
                IN  /\ {m[j].oid[1] : j \in 1..Len(m)}
                          = {g[2] : g \in {x \in db.members :
                                              x[1] = A /\ x[2] \in registered}}
                    /\ \A j, k \in 1..Len(m) : m[j] = m[k] => j = k

\* ---------------------------------------------------------------------- C9
\* The expression the claim expects of a stored clause.
ExpectedExpression(clause) ==
    IF clause = Some(GoodSql) THEN Some([expr |-> GoodSql]) ELSE None

\* C9: every policy added carries, for each of its two clauses on its own, the
\* parsed expression when the clause is present and parses and no expression
\* otherwise, together with its table and its role names; every policy of a
\* table added is added; and a build in which no query failed succeeds
\* whatever the clause texts.
C9_PolicyClausesIndependent ==
    /\ \A i \in 1..Len(generic_builder.policies) :
          LET e == generic_builder.policies[i]
          IN  /\ e.meta.using_expression = ExpectedExpression(e.item.polqual)
              /\ e.meta.check_expression = ExpectedExpression(e.item.polwithcheck)
              /\ e.meta.table = e.item.polrelid
              /\ Range(e.meta.roles)
                    = {PgRoleRows[k].rolname :
                          k \in {j \in 1..Len(PgRoleRows) :
                                    PgRoleRows[j].oid[1] \in Range(e.item.polroles)}}
    /\ \A i \in 1..Len(generic_builder.tables) :
          generic_builder.tables[i].item = PolicyTable =>
              \E j \in 1..Len(generic_builder.policies) :
                  /\ generic_builder.policies[j].item.polrelid = PolicyTable
                  /\ generic_builder.policies[j].item.polqual = db.polqual
                  /\ generic_builder.policies[j].item.polwithcheck = db.polwithcheck
    /\ (Returned /\ failed = <<>> /\ connection /\ catalog /\ schemas # <<>>) =>
          result.tag = "Ok"

\* C9 witness: a graph holding a policy whose USING clause does not parse and
\* whose WITH CHECK clause does.
C9_Witness ==
    /\ ReturnedOk
    /\ db.polqual = Some(BadSql)
    /\ db.polwithcheck = Some(GoodSql)
    /\ \E i \in 1..Len(result.graph.policies) :
          /\ result.graph.policies[i].meta.using_expression = None
          /\ result.graph.policies[i].meta.check_expression # None

\* --------------------------------------------------------------------- C10
\* C10: a check constraint added has in its function list exactly the
\* functions its constraint depends on whose name is the name of a loaded
\* function, in order, and so no function that was not loaded.
C10_KeptDependencyFunctions ==
    \A i \in 1..Len(generic_builder.check_constraints) :
        LET e == generic_builder.check_constraints[i]
            loaded == {generic_builder.functions[j].item :
                          j \in 1..Len(generic_builder.functions)}
            deps == IF db.deps = None THEN <<>>
                    ELSE [j \in 1..Len(db.deps[1]) |-> ProcByOid(db.deps[1][j])]
        IN  /\ e.meta.functions =
                  SelectSeq(deps, LAMBDA d : \E f \in loaded : f.proname = d.proname)
            /\ Range(e.meta.functions) \subseteq loaded

\* --------------------------------------------------------------------- C11
Panicked == pc = "panicked"

\* C11: a check constraint whose stored clause does not parse is never added,
\* with or without an expression: every check constraint added carries the
\* expression parsed from its clause, no table that has a check constraint
\* with such a clause is ever added, no graph is returned once the catalog
\* holds such a clause on a loaded table, and the build that met it has
\* stopped without a result.
C11_CheckClauseParseFatal ==
    /\ \A i \in 1..Len(generic_builder.check_constraints) :
          LET e == generic_builder.check_constraints[i]
          IN  /\ e.item.check_clause # BadSql
              /\ e.meta.expression = Some([expr |-> e.item.check_clause])
    /\ \A i \in 1..Len(generic_builder.tables) :
          \A j \in 1..Len(generic_builder.tables[i].meta.check_constraints) :
              generic_builder.tables[i].meta.check_constraints[j].check_clause # BadSql
    /\ (ReturnedOk /\ db.check_clause = BadSql) =>
          \A i \in 1..Len(tables) : tables[i] # CheckTable
    /\ Panicked =>
          /\ result = [tag |-> "None"]
          /\ db.check_clause = BadSql
          /\ tables[cur] = CheckTable

\* C11 witness: a build stopped at a check clause that does not parse, after
\* it added the columns of the table.
C11_Witness ==
    /\ Panicked
    /\ db.check_clause = BadSql
    /\ result.tag = "None"
    /\ generic_builder.check_constraints = <<>>
    /\ \E i \in 1..Len(generic_builder.columns) :
          generic_builder.columns[i].meta.table = CheckTable

\* --------------------------------------------------------------------- C13
\* The first element of a batch that is in the denylist before the call or
\* repeats an earlier element of the batch (0: none).
FirstDuplicate(before, types) ==
    LET dup == {i \in 1..Len(types) :
                   \/ types[i] \in Range(before)
                   \/ \E j \in 1..(i - 1) : types[j] = types[i]}
    IN  IF dup = {} THEN 0 ELSE CHOOSE i \in dup : \A j \in dup : i <= j

\* C13: a denylist call appends each type that is not yet denylisted and
\* succeeds; at the first type that is denylisted already (before the call or
\* earlier in the same batch) it returns DuplicateDenylistedType with exactly
\* that type, adds neither it nor anything after it, and the denylist never
\* holds a type twice.
C13_DenylistDuplicates ==
    /\ \A i, j \in 1..Len(denylist_types) :
          denylist_types[i] = denylist_types[j] => i = j
    /\ call.op \in {"denylist_type", "denylist_types"} =>
          LET d == FirstDuplicate(call.before, call.arg)
          IN  /\ call.op = "denylist_type" => Len(call.arg) = 1
              /\ IF d = 0
                 THEN /\ call.ret = [tag |-> "Ok"]
                      /\ denylist_types = call.before \o call.arg
                      /\ pc = "builder"
                 ELSE /\ call.ret = [tag |-> "Err",
                                     error |-> "DuplicateDenylistedType",
                                     value |-> call.arg[d]]
                      /\ denylist_types = call.before \o SubSeq(call.arg, 1, d - 1)
                      /\ pc = "dropped"

\* C13 witness: denylist_types(["bar", "foo"]) on a denylist holding "foo"
\* returned the duplicate error for "foo".
C13_Witness ==
    /\ call.op = "denylist_types"
    /\ call.before = <<2>>
    /\ call.arg = <<1, 2>>
    /\ call.ret.tag = "Err"
    /\ call.ret.value = 2

\* --------------------------------------------------------------------- C14
\* C14: schema(name) always appends the name; schemas(list) appends, in list
\* order, exactly the names that are neither in the schema list before the
\* call nor earlier in the list.
C14_SchemaDeduplication ==
    /\ call.op = "schema" => schemas = Append(call.before, call.arg[1])
    /\ call.op = "schemas" =>
          LET keep == {i \in 1..Len(call.arg) :
                          /\ call.arg[i] \notin Range(call.before)
                          /\ \A j \in 1..(i - 1) : call.arg[j] # call.arg[i]}
              n == Len(call.before)
          IN  /\ Len(schemas) = n + Cardinality(keep)
              /\ SubSeq(schemas, 1, n) = call.before
              /\ \A i \in keep :
                    schemas[n + Cardinality({k \in keep : k <= i})] = call.arg[i]

\* C14 witness: schema("public") followed by schemas(["public", "private"])
\* gave ["public", "private"].
C14_Witness ==
    /\ call.op = "schemas"
    /\ call.before = <<2>>
    /\ call.arg = <<2, 1>>
    /\ schemas = <<2, 1>>

\* --------------------------------------------------------------------- C15
\* Two strings that differ at most in the case of their letters.
SameIgnoringCase(a, b) ==
    /\ Len(a) = Len(b)
    /\ \A i \in 1..Len(a) :
          \/ a[i] = b[i]
          \/ \E k \in 1..Len(Lower) : {a[i], b[i]} = {Lower[k], Upper[k]}

\* C15: match_kind gives Full for FULL, Partial for PARTIAL and Simple for
\* SIMPLE and for NONE, in any letter case, and for every other match option
\* it gives no value: it panics.
C15_MatchKind ==
    call.op = "match_kind" =>
        LET option == referential_constraint.match_option
        IN  IF SameIgnoringCase(option, FULL)
            THEN call.ret = [tag |-> "value", kind |-> "Full"]
            ELSE IF SameIgnoringCase(option, PARTIAL)
            THEN call.ret = [tag |-> "value", kind |-> "Partial"]
            ELSE IF SameIgnoringCase(option, SIMPLE) \/ SameIgnoringCase(option, NONE)
            THEN call.ret = [tag |-> "value", kind |-> "Simple"]
            ELSE call.ret.tag = "panic" /\ Panicked

\* C15 witness: match_kind of the match option "none" gave Simple.
C15_Witness ==
    /\ call.op = "match_kind"
    /\ referential_constraint.match_option = << "n", "o", "n", "e" >>
    /\ call.ret.tag = "value"
    /\ call.ret.kind = "Simple"

\* --------------------------------------------------------------------- C16
\* C16: on_delete_cascade is true exactly when the delete rule is CASCADE in
\* any letter case.
C16_OnDeleteCascade ==
    call.op = "on_delete_cascade" =>
        (call.ret <=> SameIgnoringCase(referential_constraint.delete_rule, CASCADE))

\* C16 witness: on_delete_cascade of the delete rule "Cascade" gave true.
C16_Witness ==
    /\ call.op = "on_delete_cascade"
    /\ referential_constraint.delete_rule = << "C", "a", "s", "c", "a", "d", "e" >>
    /\ call.ret = TRUE

\* --------------------------------------------------------------------- C17
\* The OIDs of a list of role rows.
Oids(role_rows) == [i \in 1..Len(role_rows) |-> role_rows[i].oid[1]]

RECURSIVE Restrict(_, _)
\* The elements of a list that belong to a set, in the order of the list.
Restrict(list, set) ==
    IF list = <<>> THEN <<>>
    ELSE (IF Head(list) \in set THEN <<Head(list)>> ELSE <<>>)
         \o Restrict(Tail(list), set)

\* C17: no role is added, with its granted-role OIDs resolved, before every
\* role row that has an OID is registered; the member_of of a role added is
\* its stored OID list restricted to the OIDs of the rows of pg_roles, whatever
\* the order the rows were returned in, so a granted role whose row comes
\* after the member's row is resolved as well.
C17_ResolvedAfterAllRegistered ==
    /\ pc = "memberships" => generic_builder.roles = <<>>
    /\ generic_builder.roles # <<>> =>
          /\ \A i \in WithOid : roles[i].oid[1] \in DOMAIN roles_map
          /\ \A n \in 1..Len(generic_builder.roles) :
                LET e == generic_builder.roles[n]
                IN  Oids(e.meta.member_of)
                      = Restrict(role_memberships[e.item.oid[1]],
                                 {PgRoleRows[k].oid[1] : k \in 1..Len(PgRoleRows)})

\* C17 witness: a role added whose member_of holds a role whose row was
\* returned after its own.
C17_Witness ==
    /\ ReturnedOk
    /\ \E n \in 1..Len(result.graph.roles) :
          LET e == result.graph.roles[n]
          IN  \E j \in 1..Len(e.meta.member_of), a, b \in 1..Len(roles) :
                /\ roles[a] = e.item
                /\ roles[b] = e.meta.member_of[j]
                /\ a < b

\* --------------------------------------------------------------------- C18
\* C18: the member_of of every role R added holds registered roles only,
\* one for each OID of R's granted-role list that is registered, in the order
\* of that list; an OID that is not registered leaves no entry, and the build
\* returns the graph.
C18_MemberOfFromGrantedList ==
    generic_builder.roles # <<>> =>
        /\ ReturnedOk
        /\ \A n \in 1..Len(generic_builder.roles) :
              LET e == generic_builder.roles[n]
                  granted == role_memberships[e.item.oid[1]]
                  matched == {i \in 1..Len(granted) : granted[i] \in DOMAIN roles_map}
                  m == e.meta.member_of
              IN  /\ \A j \in 1..Len(m) :
                        /\ m[j].oid[1] \in DOMAIN roles_map
                        /\ m[j] = roles_map[m[j].oid[1]]
                        /\ m[j].oid[1] \in Range(granted)
                  /\ Len(m) = Cardinality(matched)
                  /\ \A j \in 1..Len(m) :
                        \E i \in matched :
                            /\ granted[i] = m[j].oid[1]
                            /\ Cardinality({k \in matched : k < i}) = j - 1

\* C18 witness: a role added whose granted-role list holds an OID that is not
\* registered, next to none of its member_of entries.
C18_Witness ==
    /\ ReturnedOk
    /\ \E n \in 1..Len(result.graph.roles) :
          LET e == result.graph.roles[n]
              granted == role_memberships[e.item.oid[1]]
          IN  /\ \E i \in 1..Len(granted) : granted[i] \notin DOMAIN roles_map
              /\ Len(e.meta.member_of) < Len(granted)

TypesOf(oids) == [i \in 1..Len(oids) |-> [oid |-> oids[i]]]

\* C20: PgProcMetadata::new looks up the argument type identifiers in order
\* and then the return type identifier, which it skips when it is zero, the
\* return type then being absent; it returns the types found when every
\* lookup succeeds, and no metadata once a lookup fails.  In a build, every
\* function added carries its types so resolved, and a failed type lookup
\* makes the build return that error without a graph.
C20_FunctionMetadataLookups ==
    /\ call.op = "PgProcMetadata::new" =>
          LET pg_proc == call.pg_proc
              all == pg_proc.proargtypes
                       \o (IF pg_proc.prorettype = 0 THEN <<>>
                           ELSE <<pg_proc.prorettype>>)
              n == Len(call.lookups)
          IN  /\ n <= Len(all)
              /\ call.lookups = SubSeq(all, 1, n)
              /\ \A i \in 1..(n - 1) : call.lookups[i] \in PgTypeOids
              /\ IF \A i \in 1..Len(all) : all[i] \in PgTypeOids
                 THEN /\ n = Len(all)
                      /\ call.ret # None
                      /\ call.ret[1].argument_types = TypesOf(pg_proc.proargtypes)
                      /\ call.ret[1].return_type =
                            (IF pg_proc.prorettype = 0 THEN None
                             ELSE Some([oid |-> pg_proc.prorettype]))
                 ELSE /\ call.ret = None
                      /\ n > 0
                      /\ call.lookups[n] \notin PgTypeOids
    /\ \A i \in 1..Len(generic_builder.functions) :
          LET e == generic_builder.functions[i]
          IN  /\ e.meta.argument_types = TypesOf(e.item.proargtypes)
              /\ e.meta.return_type = Some([oid |-> e.item.prorettype])
    /\ (\E i \in 1..Len(failed) : failed[i] = "PgType::from_oid") =>
          /\ Returned => ReturnedDiesel("PgType::from_oid")
          /\ pc \in {"done", "functions"}
          /\ Len(generic_builder.functions) < Len(PgProc_load_all)

\* C20 witness: PgProcMetadata::new of a function row with arguments and the
\* return type identifier zero returned metadata without a return type, after
\* looking up the argument types only.
C20_Witness ==
    /\ call.op = "PgProcMetadata::new"
    /\ call.pg_proc.prorettype = 0
    /\ Len(call.pg_proc.proargtypes) = 2
    /\ call.lookups = call.pg_proc.proargtypes
    /\ call.ret # None
    /\ call.ret[1].return_type = None

\* --------------------------------------------------------------------- C21
\* C21: every trigger added carries the function OID of the low-level trigger
\* row of its own table (same schema and table name) that has its trigger
\* name, and no OID when there is no such row; a build in which no query
\* failed and nothing panicked returns the graph also then.
C21_TriggerFunctionOid ==
    /\ \A n \in 1..Len(generic_builder.triggers) :
          LET trigger == generic_builder.triggers[n].item
              rows == {i \in 1..Len(PgTriggerRows) :
                          /\ PgTriggerRows[i].tgrelid = trigger.table
                          /\ Some(PgTriggerRows[i].tgname) = trigger.model.trigger_name}
          IN  IF rows = {} THEN trigger.function_oid = None
              ELSE \E i \in rows :
                      trigger.function_oid = Some(PgTriggerRows[i].tgfoid)
    /\ (Returned /\ failed = <<>> /\ MissingAttribute = None) => ReturnedOk

\* C21 witness: a graph returned with a trigger that has no function OID, its
\* name being that of a trigger of another table only.
C21_Witness ==
    /\ ReturnedOk
    /\ db.tgfoid = None
    /\ \E n \in 1..Len(result.graph.triggers) :
          /\ result.graph.triggers[n].item.function_oid = None
          /\ \E i \in 1..Len(PgTriggerRows) :
                Some(PgTriggerRows[i].tgname)
                    = result.graph.triggers[n].item.model.trigger_name

\* --------------------------------------------------------------------- C22
\* C22: every trigger added has the one event its event string names among
\* INSERT, UPDATE, DELETE, TRUNCATE, the timing its timing string names among
\* BEFORE, AFTER, INSTEAD OF and the orientation its orientation string names
\* among ROW, STATEMENT; an absent or any other string gives no event, no
\* timing, no orientation, and the trigger is added all the same.
C22_TriggerStringsParsed ==
    /\ \A n \in 1..Len(generic_builder.triggers) :
          LET trigger == generic_builder.triggers[n].item
              em == trigger.model.event_manipulation
              at == trigger.model.action_timing
              ao == trigger.model.action_orientation
          IN  /\ em = Some("INSERT") <=> trigger.events = <<"Insert">>
              /\ em = Some("UPDATE") <=> trigger.events = <<"Update">>
              /\ em = Some("DELETE") <=> trigger.events = <<"Delete">>
              /\ em = Some("TRUNCATE") <=> trigger.events = <<"Truncate">>
              /\ em \notin {Some("INSERT"), Some("UPDATE"), Some("DELETE"),
                            Some("TRUNCATE")} <=> trigger.events = <<>>
              /\ at = Some("BEFORE") <=> trigger.timing = Some("Before")
              /\ at = Some("AFTER") <=> trigger.timing = Some("After")
              /\ at = Some("INSTEAD OF") <=> trigger.timing = Some("InsteadOf")
              /\ at \notin {Some("BEFORE"), Some("AFTER"), Some("INSTEAD OF")}
                    <=> trigger.timing = None
              /\ ao = Some("ROW") <=> trigger.orientation = Some("Row")
              /\ ao = Some("STATEMENT") <=> trigger.orientation = Some("Statement")
              /\ ao \notin {Some("ROW"), Some("STATEMENT")}
                    <=> trigger.orientation = None
    /\ ReturnedOk =>
          \A t \in Range(AddedTables) :
              Len(InformationSchemaTriggers(t))
                    * Cardinality({i \in 1..Len(AddedTables) : AddedTables[i] = t})
                  = Cardinality({n \in 1..Len(generic_builder.triggers) :
                                    generic_builder.triggers[n].item.table = t})

\* C22 witness: a graph returned with a trigger whose event string is not one
\* of the four events, added without an event.
C22_Witness ==
    /\ ReturnedOk
    /\ \E n \in 1..Len(result.graph.triggers) :
          LET trigger == result.graph.triggers[n].item
          IN  /\ trigger.model.event_manipulation = Some("INSERT OR UPDATE")
              /\ trigger.events = <<>>
              /\ trigger.timing = Some("Before")

\* --------------------------------------------------------------------- C23
\* C23: the role list of every policy added holds one name for each row of
\* pg_authid whose OID is among the policy's role OIDs and nothing else, an
\* OID without a row leaving no entry; once this lookup has failed the build
\* returns that error, and the policy in process is not added.
C23_PolicyRolesByOid ==
    /\ \A n \in 1..Len(generic_builder.policies) :
          LET e == generic_builder.policies[n]
              rows == {k \in 1..Len(PgRoleRows) :
                          /\ PgRoleRows[k].oid # None
                          /\ \E i \in 1..Len(e.item.polroles) :
                                e.item.polroles[i] = PgRoleRows[k].oid[1]}
          IN  /\ Len(e.meta.roles) = Cardinality(rows)
              /\ \A k \in rows :
                    \E j \in 1..Len(e.meta.roles) :
                        e.meta.roles[j] = PgRoleRows[k].rolname
    /\ (\E i \in 1..Len(failed) : failed[i] = "pg_policy_table::roles") =>
          /\ ReturnedDiesel("pg_policy_table::roles")
          /\ Len(generic_builder.policies)
                < Cardinality({i \in 1..Len(tables) : tables[i] = PolicyTable})

\* C23 witness: a graph returned with a policy whose role OIDs hold one OID
\* without a row of pg_authid and one with a row, and whose role list holds
\* the one name.
C23_Witness ==
    /\ ReturnedOk
    /\ \E n \in 1..Len(result.graph.policies) :
          LET e == result.graph.policies[n]
          IN  /\ e.item.polroles = <<29, 22>>
              /\ e.meta.roles = <<3>>

\* --------------------------------------------------------------------- C24
\* C24: in a graph returned, the policies list of every role holds each
\* policy of the graph whose role list names that role.
C24_RolePoliciesReverseIndex ==
    ReturnedOk =>
        \A r \in 1..Len(result.graph.roles), n \in 1..Len(result.graph.policies) :
            LET role == result.graph.roles[r]
                policy == result.graph.policies[n]
            IN  role.item.rolname \in Range(policy.meta.roles) =>
                    policy.item \in Range(role.meta.policies)

\* --------------------------------------------------------------------- C25
\* C25: through any sequence of denylist_type and denylist_types calls the
\* denylist holds no value twice, and every call leaves the values already
\* there in place and puts the values it accepts behind them, in the order it
\* accepted them: the denylist is the accepted values in order of addition.
C25_DenylistOrderedSet ==
    /\ [](Cardinality(Range(denylist_types)) = Len(denylist_types))
    /\ [][/\ Len(denylist_types) <= Len(denylist_types')
          /\ SubSeq(denylist_types', 1, Len(denylist_types)) = denylist_types
          /\ \A i \in (Len(denylist_types) + 1)..Len(denylist_types') :
                /\ denylist_types'[i] \notin Range(denylist_types)
                /\ \E k \in 1..Len(call'.arg) :
                      /\ call'.arg[k] = denylist_types'[i]
                      /\ Cardinality({call'.arg[j] : j \in 1..k}
                                        \ Range(denylist_types))
                            = i - Len(denylist_types)]_denylist_types

\* C25 witness: a denylist of two values, the second accepted by a
\* denylist_types call after a denylist_type call had put the first.
C25_Witness ==
    /\ call.op = "denylist_types"
    /\ call.ret.tag = "Ok"
    /\ call.before = <<2>>
    /\ denylist_types = <<2, 1>>

\* --------------------------------------------------------------------- C26
\* C26: whatever the schema list, a name twice in it included, every catalog
\* table of a requested schema is loaded once, and in a graph returned it has
\* been added once, with its columns once.
C26_EachTableOnce ==
    \A t \in {u \in CatalogTables : /\ u.table_schema \in Range(schemas)
                                    /\ u.table_name # DieselMigrations} :
        /\ Logged("sort_tables") =>
              Cardinality({i \in 1..Len(tables) : tables[i] = t}) = 1
        /\ ReturnedOk =>
              /\ Cardinality({i \in 1..Len(result.graph.tables) :
                                 result.graph.tables[i].item = t}) = 1
              /\ Cardinality({i \in 1..Len(result.graph.columns) :
                                 result.graph.columns[i].meta.table = t})
                    = Len(columns(t))

\* --------------------------------------------------------------------- C27
\* C27: every unique index added under an owning table is an index of that
\* table, by schema and name.
C27_UniqueIndexOfOwnTable ==
    \A n \in 1..Len(generic_builder.unique_indices) :
        LET e == generic_builder.unique_indices[n]
        IN  /\ e.item.indrelid.table_name = e.meta.table.table_name
            /\ e.item.indrelid.table_schema = e.meta.table.table_schema

\* --------------------------------------------------------------------- C28
\* C28: every role added has an OID, no two roles added have the same OID,
\* and a graph returned holds one role for each OID of the role rows loaded:
\* none for a row without an OID, one for several rows of one OID.
C28_RolesUniqueByOid ==
    /\ \A n \in 1..Len(generic_builder.roles) :
          /\ generic_builder.roles[n].item.oid # None
          /\ \E i \in 1..Len(roles) : roles[i] = generic_builder.roles[n].item
    /\ \A n, m \in 1..Len(generic_builder.roles) :
          generic_builder.roles[n].item.oid = generic_builder.roles[m].item.oid
              => n = m
    /\ ReturnedOk =>
          {result.graph.roles[n].item.oid : n \in 1..Len(result.graph.roles)}
              = {roles[i].oid : i \in 1..Len(roles)} \ {None}

\* C28 witness: a graph returned after a load of five role rows, one without
\* an OID and two with the same OID, holding three roles.
C28_Witness ==
    /\ ReturnedOk
    /\ \E i \in 1..Len(roles) : roles[i].oid = None
    /\ \E i, j \in 1..Len(roles) : i < j /\ roles[i].oid = roles[j].oid
    /\ Len(roles) = 5
    /\ Len(result.graph.roles) = 3

\* --------------------------------------------------------------------- C29
\* C29: the order in which a build adds the roles is determined by the
\* catalog snapshot: at the step that adds the roles, the order taken is the
\* only order that step can take, so any two builds take the same.
C29_RoleOrderDetermined ==
    [][pc = "add_roles" =>
          \A order \in HashMapIterationOrders(roles_map) :
              [n \in 1..Len(generic_builder'.roles) |->
                  generic_builder'.roles[n].item.oid[1]] = order]_vars

\* --------------------------------------------------------------------- C30
\* C30: no step of a build adds a schema entity, a table privilege grant or a
\* column privilege grant: the three collections of the graph under
\* construction stay as a fresh graph builder has them, and so has them the
\* graph returned, whatever grants the catalog holds.
C30_NoSchemasNoGrants ==
    /\ generic_builder.schemas = NewBuilder.schemas
    /\ generic_builder.table_grants = NewBuilder.table_grants
    /\ generic_builder.column_grants = NewBuilder.column_grants
    /\ [][/\ generic_builder'.schemas = generic_builder.schemas
          /\ generic_builder'.table_grants = generic_builder.table_grants
          /\ generic_builder'.column_grants = generic_builder.column_grants]_vars
    /\ [](ReturnedOk =>
            /\ result.graph.schemas = <<>>
            /\ result.graph.table_grants = <<>>
            /\ result.graph.column_grants = <<>>)

\* C30 witness: a graph returned that holds a table on which the catalog
\* records a privilege grant, and holds no grant.
C30_Witness ==
    /\ ReturnedOk
    /\ \E i \in 1..Len(RoleTableGrants_load_all(schemas)),
          n \in 1..Len(result.graph.tables) :
          LET g == RoleTableGrants_load_all(schemas)[i]
          IN  /\ result.graph.tables[n].item.table_schema = g.table_schema
              /\ result.graph.tables[n].item.table_name = g.table_name
    /\ result.graph.table_grants = <<>>

====
